---- MODULE Spec2Model ----
(***************************************************************************)
(* Model of the hexahedral mesh reconstruction pipeline                    *)
(* (src/reconstruction_engine.h) and of the window that sequences it       *)
(* (src/mainwindow.cpp).                                                   *)
(*                                                                         *)
(* Coordinates are integers counted in units of 1/Unit, so that the        *)
(* reference layout's -0.2 is the integer -1.  On the coordinate range of  *)
(* the model every float comparison of the code has the same outcome as    *)
(* the exact comparison made here.                                         *)
(*                                                                         *)
(* std::vector<MeshPoint> is a function on 0..n-1 (the code's indices);    *)
(* QuadFace and Hexahedron are tuples (slot k of the code is slot k+1);    *)
(* std::vector<QuadFace> / std::vector<Hexahedron> are sequences;          *)
(* AdjacencyGraph is a function from its keys to sets of indices.          *)
(***************************************************************************)
EXTENDS Integers, Sequences, FiniteSets, TLC

VARIABLES
    m_points,       \* MainWindow::m_points
    m_adjGraph,     \* MainWindow::m_adjGraph
    m_faces,        \* MainWindow::m_faces
    m_hexahedra,    \* MainWindow::m_hexahedra
    step1Enabled,   \* m_step1Button->isEnabled()
    step2Enabled,   \* m_step2Button->isEnabled()
    step3Enabled,   \* m_step3Button->isEnabled()
    call,           \* how the last engine call ended: "none", "returned", "crashed"
    oobRead,        \* the last findValidFaces call read points[] out of bounds
    iterOrder,      \* harness: the iteration order the last direct findValidFaces call met
    heapBefore,     \* harness: what lies in memory below points[0]
    lastOp,         \* history: the operation that produced this state
    runs            \* history: the outputs of every completed run of the three stages

vars == <<m_points, m_adjGraph, m_faces, m_hexahedra,
          step1Enabled, step2Enabled, step3Enabled,
          call, oobRead, iterOrder, heapBefore, lastOp, runs>>

----------------------------------------------------------------------------
(* Constants of the program *)

\* coordinate units per 1.0 (the layout's smallest step is 0.2)
Unit == 5

\* arePointsCoplanar's default tolerance, 1e-3 = TolNum / TolDen
TolNum == 1
TolDen == 1000

\* the diagonal/edge ratio 1.01 = RatioNum / RatioDen
RatioNum == 101
RatioDen == 100

----------------------------------------------------------------------------
(* Generic helpers *)

Abs(x) == IF x < 0 THEN -x ELSE x

Max2(a, b) == IF a >= b THEN a ELSE b

RECURSIVE Flatten(_)
Flatten(ss) == IF ss = <<>> THEN <<>> ELSE Head(ss) \o Flatten(Tail(ss))

Range(s) == {s[k] : k \in 1..Len(s)}

\* a std::vector as a function on 0..n-1
ToVec(s) == [i \in 0..(Len(s) - 1) |-> s[i + 1]]

Size(v) == Cardinality(DOMAIN v)

----------------------------------------------------------------------------
(* QVector3D arithmetic *)

VSub(a, b) == <<a[1] - b[1], a[2] - b[2], a[3] - b[3]>>

dotProduct(a, b) == a[1] * b[1] + a[2] * b[2] + a[3] * b[3]

crossProduct(a, b) == <<a[2] * b[3] - a[3] * b[2],
                        a[3] * b[1] - a[1] * b[3],
                        a[1] * b[2] - a[2] * b[1]>>

lengthSquared(a) == dotProduct(a, a)

\* QVector3D::distanceToPoint is sqrt(lengthSquared(a - b)); the square root is
\* strictly increasing, so the model keeps the squared length as the sort key
\* (the value is only ever compared with other distances).
distanceToPoint(a, b) == lengthSquared(VSub(a, b))

MeshPoint(p, k) == [pos |-> p, required_neighbors |-> k]

----------------------------------------------------------------------------
(* Step 1: buildAdjacencyGraph *)

\* mutant of PairLess: the index no longer decides between equal distances
PairLessByDistance(a, b) == a[1] < b[1]

\* operator< of std::pair<float,int>: by distance, then by index
PairLess(a, b) == a[1] < b[1] \/ (a[1] = b[1] /\ a[2] < b[2])

RECURSIVE InsertPair(_, _)
InsertPair(s, x) ==
    IF s = <<>> THEN <<x>>
    ELSE IF PairLess(x, Head(s)) THEN <<x>> \o s
    ELSE <<Head(s)>> \o InsertPair(Tail(s), x)

RECURSIVE SortPairs(_)
SortPairs(s) == IF s = <<>> THEN <<>> ELSE InsertPair(SortPairs(Tail(s)), Head(s))

\* mutant of Distances: `if (i == j) continue;` left out
DistancesWithSelf(points, i) ==
    [t \in 1..Size(points) |->
        <<distanceToPoint(points[i].pos, points[t - 1].pos), t - 1>>]

\* the inner loop over j: one (distance, j) pair for every j # i, in index order
Distances(points, i) ==
    LET n == Size(points)
        js == SelectSeq([k \in 1..n |-> k - 1], LAMBDA j : j # i)
    IN  [t \in 1..Len(js) |-> <<distanceToPoint(points[i].pos, points[js[t]].pos), js[t]>>]

\* number of iterations of `for (k = 0; k < k_neighbors && k < distances.size(); ++k)`
NeighborCount(k_neighbors, len) ==
    IF k_neighbors <= 0 THEN 0
    ELSE IF k_neighbors < len THEN k_neighbors ELSE len

buildAdjacencyGraph(points) ==
    IF Size(points) = 0 THEN [i \in {} |-> {}]
    ELSE [i \in DOMAIN points |->
            LET distances == SortPairs(Distances(points, i))
                cnt == NeighborCount(points[i].required_neighbors, Len(distances))
            IN  {distances[k][2] : k \in 1..cnt}]

----------------------------------------------------------------------------
(* Iteration order of a std::unordered_set<int> *)

RECURSIVE InsertInt(_, _)
InsertInt(s, x) ==
    IF s = <<>> THEN <<x>>
    ELSE IF x < Head(s) THEN <<x>> \o s
    ELSE <<Head(s)>> \o InsertInt(Tail(s), x)

\* std::sort of a QVector<int>
RECURSIVE SortInts(_)
SortInts(s) == IF s = <<>> THEN <<>> ELSE InsertInt(SortInts(Tail(s)), Head(s))

RECURSIVE Ascending(_)
Ascending(S) ==
    IF S = {} THEN <<>>
    ELSE LET m == CHOOSE x \in S : \A y \in S : x <= y
         IN  <<m>> \o Ascending(S \ {m})

Reverse(s) == [k \in 1..Len(s) |-> s[Len(s) + 1 - k]]

Rotate(s, r) == [k \in 1..Len(s) |-> s[((k - 1 + r) % Len(s)) + 1]]

\* The order in which the unordered_set stored under key `owner` is iterated.
\* The standard leaves it unspecified; it is fixed for one container, so one
\* `order` (a rotation, the same for every key or shifted per key, and a
\* direction) stands for the hash table layout of one graph object.
Iterate(S, owner, order) ==
    LET asc == Ascending(S)
        rot == Rotate(asc, order.rot + (IF order.perKey THEN Abs(owner) ELSE 0))
    IN  IF S = {} THEN <<>> ELSE IF order.rev THEN Reverse(rot) ELSE rot

----------------------------------------------------------------------------
(* Step 2: findValidFaces *)

\* points[idx].pos; an index below 0 reads outside the vector's storage and
\* yields whatever lies there (`garbage`)
PosAt(points, idx, garbage) ==
    IF idx \in DOMAIN points THEN points[idx].pos ELSE garbage

TooLarge(points, face) == \E k \in 1..4 : face[k] >= Size(points)

\* the candidate is evaluated with an index that is not an index of points
\* and is not caught by the `>= points.size()` test
ReadsOutOfBounds(points, face) ==
    /\ ~TooLarge(points, face)
    /\ \E k \in 1..4 : face[k] < 0

arePointsCoplanar(points, face, garbage) ==
    IF TooLarge(points, face) THEN FALSE
    ELSE LET p0 == PosAt(points, face[1], garbage)
             p1 == PosAt(points, face[2], garbage)
             p2 == PosAt(points, face[3], garbage)
             p3 == PosAt(points, face[4], garbage)
             volume == dotProduct(VSub(p1, p0), crossProduct(VSub(p2, p0), VSub(p3, p0)))
         IN  \* |volume| / Unit^3 < TolNum / TolDen
             TolDen * Abs(volume) < TolNum * Unit * Unit * Unit

\* diag02_sq > max_edge_sq * 1.01f && diag13_sq > max_edge_sq * 1.01f
DiagonalsExceed(points, face, garbage) ==
    LET p0 == PosAt(points, face[1], garbage)
        p1 == PosAt(points, face[2], garbage)
        p2 == PosAt(points, face[3], garbage)
        p3 == PosAt(points, face[4], garbage)
        edge01_sq == lengthSquared(VSub(p0, p1))
        edge12_sq == lengthSquared(VSub(p1, p2))
        edge23_sq == lengthSquared(VSub(p2, p3))
        edge30_sq == lengthSquared(VSub(p3, p0))
        diag02_sq == lengthSquared(VSub(p0, p2))
        diag13_sq == lengthSquared(VSub(p1, p3))
        max_edge_sq == Max2(Max2(edge01_sq, edge12_sq), Max2(edge23_sq, edge30_sq))
    IN  /\ RatioDen * diag02_sq > RatioNum * max_edge_sq
        /\ RatioDen * diag13_sq > RatioNum * max_edge_sq

\* mutant of IndexPairs: only neighbouring positions are paired
AdjacentPairs(len) == [i \in 1..(len - 1) |-> <<i, i + 1>>]

\* the index pairs (i, j) of `for i ... for j = i + 1 ...`, in loop order
IndexPairs(len) ==
    Flatten([i \in 1..len |-> [d \in 1..(len - i) |-> <<i, i + d>>]])

\* the candidates found from p0, in the order the loops produce them
CandidatesAt(g, p0, order) ==
    IF p0 \notin DOMAIN g THEN <<>>
    ELSE LET neighbors == Iterate(g[p0], p0, order)
             pr == IndexPairs(Len(neighbors))
         IN  Flatten([t \in 1..Len(pr) |->
                LET p1 == neighbors[pr[t][1]]
                    p3 == neighbors[pr[t][2]]
                IN  IF p1 \notin DOMAIN g \/ p3 \notin DOMAIN g THEN <<>>
                    ELSE LET p2s == SelectSeq(Iterate(g[p1], p1, order),
                                        LAMBDA p2 : p2 # p0 /\ p2 \in g[p3])
                         IN  [u \in 1..Len(p2s) |-> <<p0, p1, p2s[u], p3>>]])

Candidates(points, g, order) ==
    Flatten([k \in 1..Size(points) |-> CandidatesAt(g, k - 1, order)])

\* the two geometric tests a candidate has to pass
AcceptFace(points, face, garbage) ==
    /\ arePointsCoplanar(points, face, garbage)
    /\ DiagonalsExceed(points, face, garbage)

\* mutant of FaceKey: the key is not sorted
FaceKeyUnsorted(face) == face

\* the canonical key: the four indices sorted ascending
FaceKey(face) == SortInts(face)

RECURSIVE DedupFaces(_, _)
DedupFaces(cands, uniqueFaces) ==
    IF cands = <<>> THEN <<>>
    ELSE LET sortedFace == FaceKey(Head(cands))
         IN  IF sortedFace \in uniqueFaces
             THEN DedupFaces(Tail(cands), uniqueFaces)
             ELSE <<Head(cands)>> \o DedupFaces(Tail(cands), uniqueFaces \cup {sortedFace})

\* validFaces, given the candidates in the order the loops produce them
ValidFacesOf(points, cands, garbage) ==
    DedupFaces(SelectSeq(cands, LAMBDA f : AcceptFace(points, f, garbage)), {})

findValidFaces(points, g, order, garbage) ==
    ValidFacesOf(points, Candidates(points, g, order), garbage)

----------------------------------------------------------------------------
(* Step 3: buildHexahedra *)

Disjoint(face1, face2) == Range(face1) \cap Range(face2) = {}

\* mutant of ConnectingEdges: the loops swapped, face2 outside and face1 inside
ConnectingEdgesByFace2(face1, face2, g) ==
    Flatten([b \in 1..4 |->
        LET hits == SelectSeq(face1, LAMBDA p1 : p1 \in DOMAIN g /\ face2[b] \in g[p1])
        IN  [a \in 1..Len(hits) |-> <<hits[a], face2[b]>>]])

\* mutant of ConnectingEdges: the edge is looked up from face2's side
ConnectingEdgesReversed(face1, face2, g) ==
    Flatten([a \in 1..4 |->
        LET hits == SelectSeq(face2, LAMBDA p2 : p2 \in DOMAIN g /\ face1[a] \in g[p2])
        IN  [b \in 1..Len(hits) |-> <<face1[a], hits[b]>>]])

\* the (p1, p2) pairs pushed by the double loop over face1 and face2
ConnectingEdges(face1, face2, g) ==
    Flatten([a \in 1..4 |->
        IF face1[a] \notin DOMAIN g THEN <<>>
        ELSE LET hits == SelectSeq(face2, LAMBDA p2 : p2 \in g[face1[a]])
             IN  [b \in 1..Len(hits) |-> <<face1[a], hits[b]>>]])

\* checks 2 and 3: exactly four edges, four distinct ends on each side
PerfectMatching(connecting_edges) ==
    /\ Len(connecting_edges) = 4
    /\ Cardinality({connecting_edges[k][1] : k \in 1..4}) = 4
    /\ Cardinality({connecting_edges[k][2] : k \in 1..4}) = 4

\* mutant of HexOf: the last four slots are filled from the first ends again
HexOfFirstEnds(connecting_edges) ==
    [k \in 1..8 |-> IF k <= 4 THEN connecting_edges[k][1] ELSE connecting_edges[k - 4][1]]

HexOf(connecting_edges) ==
    [k \in 1..8 |-> IF k <= 4 THEN connecting_edges[k][1] ELSE connecting_edges[k - 4][2]]

CandidateHexahedra(validFaces, g) ==
    LET pr == IndexPairs(Len(validFaces))
    IN  Flatten([t \in 1..Len(pr) |->
            LET face1 == validFaces[pr[t][1]]
                face2 == validFaces[pr[t][2]]
                connecting_edges == ConnectingEdges(face1, face2, g)
            IN  IF Disjoint(face1, face2) /\ PerfectMatching(connecting_edges)
                THEN <<HexOf(connecting_edges)>>
                ELSE <<>>])

\* mutant of HexKey: the key is not sorted
HexKeyUnsorted(hex) == hex

\* the canonical key: the eight indices sorted ascending
HexKey(hex) == SortInts(hex)

RECURSIVE DedupHexes(_, _)
DedupHexes(cands, uniqueHexes) ==
    IF cands = <<>> THEN <<>>
    ELSE LET sortedHex == HexKey(Head(cands))
         IN  IF Cardinality(Range(sortedHex)) # 8 \/ sortedHex \in uniqueHexes
             THEN DedupHexes(Tail(cands), uniqueHexes)
             ELSE <<Head(cands)>> \o DedupHexes(Tail(cands), uniqueHexes \cup {sortedHex})

buildHexahedra(validFaces, g) == DedupHexes(CandidateHexahedra(validFaces, g), {})

----------------------------------------------------------------------------
(* Bounds of the model *)

\* iteration orders tried for the unordered sets: rotations
MaxRot == 1

\* free-form point sequences: length, required-neighbor count
MaxSmall == 3
MaxReq == 3

\* bars of stacked unit cubes: layers of four points, points whose
\* required-neighbor count deviates from the layout's
MaxLayers == 2
MaxDev == 1

\* graphs handed to findValidFaces: edges toggled in the built graph
MaxEdits == 2

\* face lists handed to buildHexahedra: length
MaxFaceList == 3

Orders == [rot : 0..MaxRot, perKey : BOOLEAN, rev : BOOLEAN]

DefaultOrder == [rot |-> 0, perKey |-> FALSE, rev |-> FALSE]

----------------------------------------------------------------------------
(* Inputs *)

V(x, y, z) == <<x, y, z>>

\* m_points as the constructor sets it (coordinates times Unit)
ReferencePoints ==
    ToVec(<< MeshPoint(V(-1, 0, 0), 3),  MeshPoint(V(5, 0, 0), 3),
             MeshPoint(V(5, 5, 0), 3),   MeshPoint(V(0, 5, 0), 3),
             MeshPoint(V(0, 0, 5), 4),   MeshPoint(V(5, 0, 5), 4),
             MeshPoint(V(5, 5, 5), 4),   MeshPoint(V(0, 5, 5), 4),
             MeshPoint(V(0, 0, 10), 4),  MeshPoint(V(5, 0, 10), 4),
             MeshPoint(V(5, 5, 10), 4),  MeshPoint(V(0, 5, 10), 4),
             MeshPoint(V(0, 0, 15), 3),  MeshPoint(V(5, 0, 15), 3),
             MeshPoint(V(5, 5, 15), 3),  MeshPoint(V(0, 5, 15), 3) >>)

\* free-form sequences: points on a line, some of them at the same place, so
\* that distances tie
SmallPositions == {V(0, 0, 0), V(5, 0, 0), V(10, 0, 0)}

SmallPointSets ==
    UNION {[0..(n - 1) -> {MeshPoint(p, k) : p \in SmallPositions, k \in 0..MaxReq}] :
              n \in 0..MaxSmall}

\* a bar of `layers` layers in the manner of the reference layout: corner c of
\* layer l is point 4l + c; point 0 is moved by `shift`; the end layers ask
\* for 3 neighbors and the inner ones for 4, `up` asks for one more and `down`
\* for one less
Corner(c) == IF c = 0 THEN <<0, 0>> ELSE IF c = 1 THEN <<Unit, 0>>
             ELSE IF c = 2 THEN <<Unit, Unit>> ELSE <<0, Unit>>

BarPoints(layers, shift, up, down) ==
    [i \in 0..(4 * layers - 1) |->
        LET l == i \div 4
            c == Corner(i % 4)
            base == IF l = 0 \/ l = layers - 1 THEN 3 ELSE 4
            at == V(c[1], c[2], Unit * l)
        IN  MeshPoint(IF i = 0 THEN V(at[1] + shift[1], at[2] + shift[2], at[3] + shift[3])
                               ELSE at,
                      base + (IF i \in up THEN 1 ELSE 0) - (IF i \in down THEN 1 ELSE 0))]

\* point 0 in place, or moved as in the reference layout
Shifts == {V(0, 0, 0), V(-1, 0, 0)}

\* the subsets of S with at most k elements
RECURSIVE SubsetsUpTo(_, _)
SubsetsUpTo(S, k) ==
    IF k = 0 THEN {{}}
    ELSE LET prev == SubsetsUpTo(S, k - 1)
         IN  prev \cup {T \cup {x} : T \in prev, x \in S}

\* at most MaxDev points of the two lowest layers deviate, each up or down
Deviations ==
    UNION {{<<up, dev \ up>> : up \in SUBSET dev} : dev \in SubsetsUpTo(0..7, MaxDev)}

BarPointSets ==
    {BarPoints(l, sh, dv[1], dv[2]) : l \in 2..MaxLayers, sh \in Shifts, dv \in Deviations}

GraphPointSets == SmallPointSets \cup BarPointSets

----------------------------------------------------------------------------
(* The window: MainWindow *)

EmptyGraph == [i \in {} |-> {}]

\* what a completed run leaves for comparison with other runs: its outputs as
\* sets, and the neighbor that the loops of findValidFaces met first
VertexSets(list) == {Range(list[k]) : k \in 1..Len(list)}

RunRecord == [graph |-> m_adjGraph,
              faces |-> VertexSets(m_faces),
              hexes |-> VertexSets(m_hexahedra'),
              firstNeighbor |-> IF m_faces = <<>> THEN -1 ELSE m_faces[1][2]]

\* the state after the constructor has set m_points and called onReset()
InitWindow(points) ==
    /\ m_points = points
    /\ m_adjGraph = EmptyGraph
    /\ m_faces = <<>>
    /\ m_hexahedra = <<>>
    /\ step1Enabled = TRUE
    /\ step2Enabled = FALSE
    /\ step3Enabled = FALSE
    /\ call = "none"
    /\ oobRead = FALSE
    /\ iterOrder = DefaultOrder
    /\ heapBefore = V(0, 0, 0)
    /\ lastOp = "reset"
    /\ runs = {}

Init == InitWindow(ReferencePoints)

\* mutant of onReset: m_faces.clear() left out
onResetKeepFaces ==
    /\ m_adjGraph' = EmptyGraph
    /\ m_hexahedra' = <<>>
    /\ step1Enabled' = TRUE
    /\ step2Enabled' = FALSE
    /\ step3Enabled' = FALSE
    /\ lastOp' = "reset"
    /\ UNCHANGED <<m_points, m_faces, call, oobRead, iterOrder, heapBefore, runs>>

\* the reset button is never disabled
onReset ==
    /\ m_adjGraph' = EmptyGraph
    /\ m_faces' = <<>>
    /\ m_hexahedra' = <<>>
    /\ step1Enabled' = TRUE
    /\ step2Enabled' = FALSE
    /\ step3Enabled' = FALSE
    /\ lastOp' = "reset"
    /\ UNCHANGED <<m_points, call, oobRead, iterOrder, heapBefore, runs>>

\* a disabled QPushButton emits no clicked(): the slot runs only when enabled
onStep1_BuildGraph ==
    /\ step1Enabled
    /\ m_adjGraph' = buildAdjacencyGraph(m_points)
    /\ step1Enabled' = FALSE
    /\ step2Enabled' = TRUE
    /\ call' = "returned"
    /\ lastOp' = "step1"
    /\ UNCHANGED <<m_points, m_faces, m_hexahedra, step3Enabled,
                   oobRead, iterOrder, heapBefore, runs>>

\* mutant of onStep2_FindFaces: m_step2Button->setEnabled(false) left out
onStep2KeepEnabled ==
    /\ step2Enabled
    /\ \E order \in Orders :
          m_faces' = findValidFaces(m_points, m_adjGraph, order, heapBefore)
    /\ step3Enabled' = TRUE
    /\ call' = "returned"
    /\ lastOp' = "step2"
    /\ UNCHANGED <<m_points, m_adjGraph, m_hexahedra, step1Enabled, step2Enabled,
                   oobRead, iterOrder, heapBefore, runs>>

onStep2_FindFaces ==
    /\ step2Enabled
    /\ \E order \in Orders :
          m_faces' = findValidFaces(m_points, m_adjGraph, order, heapBefore)
    /\ step2Enabled' = FALSE
    /\ step3Enabled' = TRUE
    /\ call' = "returned"
    /\ lastOp' = "step2"
    /\ UNCHANGED <<m_points, m_adjGraph, m_hexahedra, step1Enabled,
                   oobRead, iterOrder, heapBefore, runs>>

onStep3_BuildHexahedra ==
    /\ step3Enabled
    /\ m_hexahedra' = buildHexahedra(m_faces, m_adjGraph)
    /\ step3Enabled' = FALSE
    /\ call' = "returned"
    /\ lastOp' = "step3"
    /\ runs' = runs \cup {RunRecord}
    /\ UNCHANGED <<m_points, m_adjGraph, m_faces, step1Enabled, step2Enabled,
                   oobRead, iterOrder, heapBefore>>

Next == onReset \/ onStep1_BuildGraph \/ onStep2_FindFaces \/ onStep3_BuildHexahedra

Spec == Init /\ [][Next]_vars

\* the window holding any of the bars of BarPointSets
InitEngine == \E points \in BarPointSets : InitWindow(points)

SpecEngine == InitEngine /\ [][Next]_vars

----------------------------------------------------------------------------
(* The engine's functions called directly, with arguments of the caller's
   making *)

InitHarness(points, g, faces) ==
    /\ m_points = points
    /\ m_adjGraph = g
    /\ m_faces = faces
    /\ m_hexahedra = <<>>
    /\ step1Enabled = FALSE
    /\ step2Enabled = FALSE
    /\ step3Enabled = FALSE
    /\ call = "none"
    /\ oobRead = FALSE
    /\ iterOrder = DefaultOrder
    /\ heapBefore = V(0, 0, 0)
    /\ lastOp = "given"
    /\ runs = {}

(* buildAdjacencyGraph *)

InitGraph == \E points \in GraphPointSets : InitHarness(points, EmptyGraph, <<>>)

CallBuildAdjacencyGraph ==
    /\ lastOp = "given"
    /\ m_adjGraph' = buildAdjacencyGraph(m_points)
    /\ call' = "returned"
    /\ lastOp' = "graph"
    /\ UNCHANGED <<m_points, m_faces, m_hexahedra, step1Enabled, step2Enabled,
                   step3Enabled, oobRead, iterOrder, heapBefore, runs>>

SpecGraph == InitGraph /\ [][CallBuildAdjacencyGraph]_vars

(* findValidFaces *)

\* one unit square (a single layer): flat, and with point 0 lifted out of the
\* plane
FacePointSets == {BarPoints(1, sh, {}, {}) : sh \in {V(0, 0, 0), V(0, 0, 1)}}

\* the edge a -> b added to the set under key a if absent, removed if present
Toggle(g, e) ==
    [g EXCEPT ![e[1]] = IF e[2] \in @ THEN @ \ {e[2]} ELSE @ \cup {e[2]}]

\* the graphs that differ from g by at most k toggled edges out of `edges`
RECURSIVE Edited(_, _, _)
Edited(g, k, edges) ==
    IF k = 0 THEN {g}
    ELSE LET prev == Edited(g, k - 1, edges)
         IN  prev \cup {Toggle(h, e) : h \in prev, e \in edges}

\* the keys are the points' indices; a neighbor set may name any index from
\* -1 (below the vector) to n (past its end)
GivenGraphs(points) ==
    Edited(buildAdjacencyGraph(points), MaxEdits,
           (0..(Size(points) - 1)) \X ((-1)..Size(points)))

\* what may lie in memory below points[0]
HeapContents == {V(0, Unit, 0), V(0, 0, 0), V(Unit, Unit, Unit)}

InitFaces ==
    \E points \in FacePointSets : \E g \in GivenGraphs(points) :
        InitHarness(points, g, <<>>)

\* findValidFaces(m_points, m_adjGraph).  A candidate with an index below 0
\* passes the `>= points.size()` test and the code reads points[] below its
\* first element: the read yields some value, or the process dies.
CallFindValidFaces ==
    /\ lastOp = "given"
    /\ \E order \in Orders :
          LET cands == Candidates(m_points, m_adjGraph, order)
              oob == \E f \in Range(cands) : ReadsOutOfBounds(m_points, f)
          IN  /\ iterOrder' = order
              /\ oobRead' = oob
              /\ \/ /\ oob
                    /\ call' = "crashed"
                    /\ UNCHANGED <<m_faces, heapBefore>>
                 \/ \E read \in (IF oob THEN HeapContents ELSE {heapBefore}) :
                      /\ heapBefore' = read
                      /\ call' = "returned"
                      /\ m_faces' = ValidFacesOf(m_points, cands, read)
    /\ lastOp' = "faces"
    /\ UNCHANGED <<m_points, m_adjGraph, m_hexahedra,
                   step1Enabled, step2Enabled, step3Enabled, runs>>

SpecFaces == InitFaces /\ [][CallFindValidFaces]_vars

(* buildHexahedra *)

\* one unit cube whose points ask for 3 neighbors (the lattice edges), for 4
\* (a diagonal added) or for 2 (an edge left out)
HexPointSets ==
    {BarPoints(2, V(0, 0, 0), {}, {}),
     BarPoints(2, V(0, 0, 0), 0..7, {}),
     BarPoints(2, V(0, 0, 0), {}, 0..7)}

\* the same face walked the other way round
OtherWay(f) == <<f[1], f[4], f[3], f[2]>>

\* the faces of the lattice, each in both directions, and a face that names
\* a vertex twice
FacePool ==
    LET points == BarPoints(2, V(0, 0, 0), {}, {})
        found == Range(findValidFaces(points, buildAdjacencyGraph(points),
                                      DefaultOrder, V(0, 0, 0)))
    IN  found \cup {OtherWay(f) : f \in found} \cup {<<0, 0, 1, 2>>}

FaceLists(pool) == UNION {[1..n -> pool] : n \in 0..MaxFaceList}

InitHex ==
    \E points \in HexPointSets : \E faces \in FaceLists(FacePool) :
        InitHarness(points, buildAdjacencyGraph(points), faces)

CallBuildHexahedra ==
    /\ lastOp = "given"
    /\ m_hexahedra' = buildHexahedra(m_faces, m_adjGraph)
    /\ call' = "returned"
    /\ lastOp' = "hexes"
    /\ UNCHANGED <<m_points, m_adjGraph, m_faces, step1Enabled, step2Enabled,
                   step3Enabled, oobRead, iterOrder, heapBefore, runs>>

SpecHex == InitHex /\ [][CallBuildHexahedra]_vars

----------------------------------------------------------------------------
(* Properties of buildAdjacencyGraph *)

\* buildAdjacencyGraph(m_points) has just returned m_adjGraph
GraphBuilt == lastOp = "graph"

NumPoints == Size(m_points)

Required(i) == m_points[i].required_neighbors

MinInt(a, b) == IF a <= b THEN a ELSE b

DistSq(i, j) == lengthSquared(VSub(m_points[i].pos, m_points[j].pos))

\* C3: the built graph has exactly the keys 0..n-1, point i has
\* min(required_neighbors[i], n-1) neighbors, a larger count is clamped without
\* an error, and no points give the empty graph.
DegreeBound ==
    GraphBuilt =>
        /\ call = "returned"
        /\ DOMAIN m_adjGraph = 0..(NumPoints - 1)
        /\ \A i \in DOMAIN m_points :
              Cardinality(m_adjGraph[i]) = MinInt(Required(i), NumPoints - 1)
        /\ (NumPoints = 0 => m_adjGraph = EmptyGraph)

\* a count above n-1 has been clamped
DegreeBoundWitness ==
    /\ GraphBuilt
    /\ NumPoints >= 2
    /\ \E i \in DOMAIN m_points :
          /\ Required(i) > NumPoints - 1
          /\ Cardinality(m_adjGraph[i]) = NumPoints - 1

\* number of points that come before j in i's ranking: nearer, or as near
\* with a smaller index
Rank(i, j) ==
    Cardinality({j2 \in DOMAIN m_points \ {i} :
                    \/ DistSq(i, j2) < DistSq(i, j)
                    \/ (DistSq(i, j2) = DistSq(i, j) /\ j2 < j)})

\* C4: i's neighbors are the first min(required_neighbors[i], n-1) points of
\* the ranking by distance and then index; i is not its own neighbor and no
\* point left out is strictly closer than one taken.
NearestFirst ==
    GraphBuilt =>
        \A i \in DOMAIN m_points :
            /\ m_adjGraph[i] =
                  {j \in DOMAIN m_points \ {i} :
                      Rank(i, j) < MinInt(Required(i), NumPoints - 1)}
            /\ i \notin m_adjGraph[i]
            /\ \A j \in m_adjGraph[i] :
                  \A j2 \in DOMAIN m_points \ (m_adjGraph[i] \cup {i}) :
                      DistSq(i, j2) >= DistSq(i, j)

\* the cut falls between two points at the same distance
NearestFirstWitness ==
    /\ GraphBuilt
    /\ \E i \in DOMAIN m_points :
          \E j \in m_adjGraph[i] :
              \E j2 \in DOMAIN m_points \ (m_adjGraph[i] \cup {i}) :
                  DistSq(i, j2) = DistSq(i, j)

----------------------------------------------------------------------------
(* Properties of the three stages run by the window *)

FirstFour(h) == {h[k] : k \in 1..4}

LastFour(h) == {h[k] : k \in 5..8}

\* the graph edges from the first four slots of h to its last four
CrossEdges(h) ==
    {e \in FirstFour(h) \X LastFour(h) :
        e[1] \in DOMAIN m_adjGraph /\ e[2] \in m_adjGraph[e[1]]}

\* C1: every hexahedron of the pipeline has 8 distinct indices, its halves are
\* the vertex sets of two disjoint faces of the face list, and exactly 4 graph
\* edges lead from the first half to the second, meeting every vertex once.
HexValidity ==
    lastOp = "step3" =>
        \A k \in 1..Len(m_hexahedra) :
            LET h == m_hexahedra[k]
            IN  /\ Cardinality(Range(h)) = 8
                /\ \E f1 \in Range(m_faces) : \E f2 \in Range(m_faces) :
                      /\ Range(f1) = FirstFour(h)
                      /\ Range(f2) = LastFour(h)
                      /\ Range(f1) \cap Range(f2) = {}
                /\ Cardinality(CrossEdges(h)) = 4
                /\ \A v \in FirstFour(h) :
                      Cardinality({e \in CrossEdges(h) : e[1] = v}) = 1
                /\ \A v \in LastFour(h) :
                      Cardinality({e \in CrossEdges(h) : e[2] = v}) = 1

\* a hexahedron was emitted from a graph that has a one-way edge
HexValidityWitness ==
    /\ lastOp = "step3"
    /\ m_hexahedra # <<>>
    /\ \E a \in DOMAIN m_adjGraph : \E b \in m_adjGraph[a] : a \notin m_adjGraph[b]

\* C5: runs on the same points that met different iteration orders of the
\* neighbor sets have the same graph, the same face vertex sets and the same
\* hexahedron vertex sets.
Determinism ==
    \A r1 \in runs : \A r2 \in runs :
        /\ r1.graph = r2.graph
        /\ r1.faces = r2.faces
        /\ r1.hexes = r2.hexes

\* two completed runs whose loops met different neighbors first, with
\* hexahedra found
DeterminismWitness ==
    \E r1 \in runs : \E r2 \in runs :
        /\ r1.firstNeighbor # r2.firstNeighbor
        /\ r1.hexes # {}

----------------------------------------------------------------------------
(* Properties of findValidFaces called with any graph *)

FacesReturned == lastOp = "faces" /\ call = "returned"

Pos(i) == m_points[i].pos

TripleProduct(f) ==
    dotProduct(VSub(Pos(f[2]), Pos(f[1])),
               crossProduct(VSub(Pos(f[3]), Pos(f[1])), VSub(Pos(f[4]), Pos(f[1]))))

\* f names four distinct points, they are coplanar within the tolerance and
\* each diagonal exceeds 1.01 times each edge (squared lengths)
ValidFace(f) ==
    /\ Range(f) \subseteq DOMAIN m_points
    /\ Cardinality(Range(f)) = 4
    /\ TolDen * Abs(TripleProduct(f)) < TolNum * Unit * Unit * Unit
    /\ \A diag \in {DistSq(f[1], f[3]), DistSq(f[2], f[4])} :
          \A edge \in {DistSq(f[1], f[2]), DistSq(f[2], f[3]),
                       DistSq(f[3], f[4]), DistSq(f[4], f[1])} :
              RatioDen * diag > RatioNum * edge

\* C2: for every graph passed to findValidFaces, every emitted face has four
\* distinct vertex indices, is coplanar within the tolerance and has both
\* squared diagonals above 1.01 times its largest squared edge.
FaceValidity ==
    FacesReturned => \A k \in 1..Len(m_faces) : ValidFace(m_faces[k])

\* the part of C2 that the code does keep: the same, for the calls that read
\* nothing out of bounds
FaceValidityInBounds ==
    (FacesReturned /\ ~oobRead) => \A k \in 1..Len(m_faces) : ValidFace(m_faces[k])

\* a face was emitted from a graph in which some point is its own neighbor
FaceValidityInBoundsWitness ==
    /\ FacesReturned
    /\ ~oobRead
    /\ m_faces # <<>>
    /\ \E a \in DOMAIN m_adjGraph : a \in m_adjGraph[a]

\* C10: a candidate with an index outside 0..n-1 is rejected without reading
\* the point sequence out of bounds: the call returns, it has read nothing out
\* of bounds and no emitted face holds such an index.
OutOfRangeRejected ==
    lastOp = "faces" =>
        /\ call = "returned"
        /\ ~oobRead
        /\ \A k \in 1..Len(m_faces) : Range(m_faces[k]) \subseteq DOMAIN m_points

\* the candidates that passed both tests, in the order they were found
AcceptedCandidates ==
    SelectSeq(Candidates(m_points, m_adjGraph, iterOrder),
              LAMBDA f : AcceptFace(m_points, f, heapBefore))

\* C7: no two faces of the returned list have the same vertex set, and each
\* stored face is the first candidate found with its vertex set.
FaceUniqueness ==
    FacesReturned =>
        LET accepted == AcceptedCandidates
        IN  /\ \A i \in 1..Len(m_faces) : \A j \in 1..Len(m_faces) :
                  i # j => Range(m_faces[i]) # Range(m_faces[j])
            /\ \A k \in 1..Len(m_faces) :
                  \E t \in 1..Len(accepted) :
                      /\ accepted[t] = m_faces[k]
                      /\ \A u \in 1..(t - 1) : Range(accepted[u]) # Range(m_faces[k])

\* the same vertex set was found again later, in another order
FaceUniquenessWitness ==
    /\ FacesReturned
    /\ LET accepted == AcceptedCandidates
       IN  \E k \in 1..Len(m_faces) : \E t \in 1..Len(accepted) :
              /\ Range(accepted[t]) = Range(m_faces[k])
              /\ accepted[t] # m_faces[k]

----------------------------------------------------------------------------
(* Properties of buildHexahedra called with any face list *)

\* C8: no two hexahedra of the returned list have the same vertex set, also
\* when several face pairs give the same cell.
HexUniqueness ==
    lastOp = "hexes" =>
        \A i \in 1..Len(m_hexahedra) : \A j \in 1..Len(m_hexahedra) :
            i # j => Range(m_hexahedra[i]) # Range(m_hexahedra[j])

\* two face pairs gave the same cell, in different slot orders
HexUniquenessWitness ==
    /\ lastOp = "hexes"
    /\ m_hexahedra # <<>>
    /\ LET cands == CandidateHexahedra(m_faces, m_adjGraph)
       IN  \E i \in 1..Len(cands) : \E j \in 1..Len(cands) :
              /\ i # j
              /\ Range(cands[i]) = Range(cands[j])
              /\ cands[i] # cands[j]

\* the vertices of face f that the graph lists as neighbors of a
MatchedIn(f, a) ==
    {v \in Range(f) : a \in DOMAIN m_adjGraph /\ v \in m_adjGraph[a]}

\* h is what the pair (F1, F2) gives: F1 in its stored order, then for each
\* slot the one vertex of F2 that the graph lists as its neighbor
FormedFrom(h, F1, F2) ==
    /\ \A k \in 1..4 : h[k] = F1[k]
    /\ \A k \in 1..4 : MatchedIn(F2, h[k]) = {h[k + 4]}
    /\ {h[k + 4] : k \in 1..4} = Range(F2)

\* h comes from a pair of the face list, the earlier face first
FromAPair(h) ==
    \E i \in 1..Len(m_faces) : \E j \in (i + 1)..Len(m_faces) :
        FormedFrom(h, m_faces[i], m_faces[j])

\* C12: every hexahedron formed, returned or dropped as a duplicate, comes
\* from a pair (F1, F2) of the face list, F1 the earlier one: its slots 0..3
\* are F1 in F1's stored order and slot k+4 is the one vertex of F2 in
\* graph[h[k]], so that slots 4..7 are a permutation of F2.
SlotOrder ==
    lastOp = "hexes" =>
        /\ \A n \in 1..Len(m_hexahedra) : FromAPair(m_hexahedra[n])
        /\ \A c \in Range(CandidateHexahedra(m_faces, m_adjGraph)) : FromAPair(c)

\* a hexahedron whose last four slots are F2's vertices in another order than
\* F2 stores them
SlotOrderWitness ==
    /\ lastOp = "hexes"
    /\ \E n \in 1..Len(m_hexahedra) :
          \E i \in 1..Len(m_faces) : \E j \in (i + 1)..Len(m_faces) :
              /\ FormedFrom(m_hexahedra[n], m_faces[i], m_faces[j])
              /\ \E k \in 1..4 : m_hexahedra[n][k + 4] # m_faces[j][k]

----------------------------------------------------------------------------
(* Properties of the window on the reference layout *)

\* C6 as stated: the three stages on the reference layout give exactly 2
\* hexahedra and at least 11 faces.
ReferenceTwoHexahedra ==
    lastOp = "step3" => (Len(m_hexahedra) = 2 /\ Len(m_faces) >= 11)

\* C6 amended: the three stages on the reference layout (four layers, hence
\* three stacked cells) give exactly 3 hexahedra and at least 11 faces.
ReferenceThreeHexahedra ==
    lastOp = "step3" => (Len(m_hexahedra) = 3 /\ Len(m_faces) >= 11)

\* the three stages have run on the 16 reference points
ReferenceWitness ==
    /\ lastOp = "step3"
    /\ m_points = ReferencePoints
    /\ Len(m_faces) >= 11
    /\ m_hexahedra # <<>>

\* C9: a reset leaves the graph, the face list and the hexahedron list empty
\* and the points as they were, and all completed runs, whatever was clicked
\* in between, gave the same set of hexahedron vertex sets.
ResetIdempotence ==
    /\ m_points = ReferencePoints
    /\ lastOp = "reset" =>
          (m_adjGraph = EmptyGraph /\ m_faces = <<>> /\ m_hexahedra = <<>>)
    /\ \A r1 \in runs : \A r2 \in runs : r1.hexes = r2.hexes

\* a reset after two completed runs whose loops met different neighbors first
ResetIdempotenceWitness ==
    /\ lastOp = "reset"
    /\ \E r1 \in runs : \E r2 \in runs : r1.firstNeighbor # r2.firstNeighbor /\ r1.hexes # {}

\* the handler that a step of the window runs, read from the state it leaves
Ran(op) == lastOp' = op

\* C11: between two resets the stages run in strict order and at most once
\* each: step 1 runs only right after a reset, step 2 only on the graph that
\* step 1 has built since that reset, step 3 only on a face list that step 2
\* has built since that reset.
StagesInOrder ==
    [][/\ Ran("step1") => lastOp = "reset"
       /\ Ran("step2") =>
             (lastOp = "step1" /\ m_adjGraph = buildAdjacencyGraph(m_points))
       /\ Ran("step3") =>
             /\ lastOp = "step2"
             /\ \E order \in Orders :
                   m_faces = findValidFaces(m_points, m_adjGraph, order, heapBefore)]_vars

\* the three stages have run, a reset was clicked and they have run again,
\* leaving every step button disabled
StagesInOrderWitness ==
    /\ lastOp = "step3"
    /\ Cardinality(runs) >= 2
    /\ ~step1Enabled /\ ~step2Enabled /\ ~step3Enabled

====
